---- MODULE Spec2Model ----
(***************************************************************************)
(* A model of script.py: the incremental course harvester.  JSON values    *)
(* are tagged records, the merge engine is a family of operators, and the  *)
(* pure operators are exercised by SpecMerge.                              *)
(***************************************************************************)
EXTENDS Integers, Sequences, FiniteSets, TLC

VARIABLES pc, run, batches_got, master_file, tmp_file, skip_push, filtered_courses, master_json,
          pending, results, idx, file_at_start, last_upsert

pvars == <<pc, run, batches_got, master_file, tmp_file, skip_push, filtered_courses, master_json,
           pending, results, idx, file_at_start, last_upsert>>

VARIABLES g_max, g_attempt, g_hist, g_sleeps, g_ret, g_pc

gvars == <<g_max, g_attempt, g_hist, g_sleeps, g_ret, g_pc>>

VARIABLES m_mode, m_existing, m_new, m_key, m_first, m_newobj, m_out, m_pc

mvars == <<m_mode, m_existing, m_new, m_key, m_first, m_newobj, m_out, m_pc>>

VARIABLES f_course, f_w, f_pc, f_i, f_calls, f_out

fvars == <<f_course, f_w, f_pc, f_i, f_calls, f_out>>

vars == <<pvars, gvars, mvars, fvars>>

(***************************************************************************)
(* JSON-like values.  Python's ==, on the values used here, is structural  *)
(* equality of these tagged records ("5" # 5, None # "", [] # {}).         *)
(***************************************************************************)
None == [t |-> "none"]
Txt(s) == [t |-> "str", s |-> s]
Num(n) == [t |-> "int", n |-> n]
Bool(b) == [t |-> "bool", b |-> b]
List(l) == [t |-> "list", l |-> l]
Dict(d) == [t |-> "dict", d |-> d]
EmptyD == [k \in {} |-> None]

IsDict(x) == x.t = "dict"
IsList(x) == x.t = "list"

\* dict.get(k): the value under k, None when the key is absent.
Get(x, k) == IF k \in DOMAIN x.d THEN x.d[k] ELSE None

\* existing[k] = v
Put(x, k, v) == Dict([j \in DOMAIN x.d \cup {k} |-> IF j = k THEN v ELSE x.d[j]])

\* Python truthiness, as used by `or` and `if x:`.
Truthy(x) ==
    CASE x.t = "none" -> FALSE
      [] x.t = "str" -> x.s # ""
      [] x.t = "int" -> x.n # 0
      [] x.t = "bool" -> x.b
      [] x.t = "list" -> x.l # <<>>
      [] x.t = "dict" -> DOMAIN x.d # {}

Digits == <<"0", "1", "2", "3", "4", "5", "6", "7", "8", "9">>

RECURSIVE IntStr(_)
IntStr(n) ==
    IF n < 0 THEN "-" \o IntStr(0 - n)
    ELSE IF n < 10 THEN Digits[n + 1]
    ELSE IntStr(n \div 10) \o Digits[(n % 10) + 1]

\* str(x) for the scalars and the empty containers.
StrOf(x) ==
    CASE x.t = "none" -> "None"
      [] x.t = "str" -> x.s
      [] x.t = "int" -> IntStr(x.n)
      [] x.t = "bool" -> IF x.b THEN "True" ELSE "False"
      [] x.t = "list" /\ x.l = <<>> -> "[]"
      [] x.t = "dict" /\ DOMAIN x.d = {} -> "{}"

ensure_list(x) ==
    IF IsList(x) THEN x.l
    ELSE IF IsDict(x) THEN <<x>>
    ELSE <<>>

(***************************************************************************)
(* Merge engine.                                                           *)
(***************************************************************************)
is_blank_zero(x) == x \in {None, Txt(""), List(<<>>), Dict(EmptyD), Num(0)}

is_blank(x) == x \in {None, Txt(""), List(<<>>), Dict(EmptyD)}

merge_scalar_overwrite(existing_dict, k, new_val) ==
    IF ~is_blank(new_val) THEN Put(existing_dict, k, new_val) ELSE existing_dict

merge_scalar_fill_only(existing_dict, k, new_val) ==
    IF is_blank(Get(existing_dict, k)) /\ ~is_blank(new_val)
    THEN Put(existing_dict, k, new_val)
    ELSE existing_dict

\* One key of the loop of merge_dict_fill_only; the keys of a dict are
\* distinct and each iteration reads and writes existing[k] only, so the
\* loop is the composition of these steps in any order.
RECURSIVE merge_dict_fill_only(_, _)
merge_dict_key_resets_lists(existing, k, v) ==
    IF IsDict(v)
    THEN LET e0 == IF IsDict(Get(existing, k)) THEN Get(existing, k) ELSE Dict(EmptyD)
         IN  Put(existing, k, merge_dict_fill_only(e0, v))
    ELSE IF IsList(v)
    THEN Put(existing, k, List(<<>>))
    ELSE merge_scalar_fill_only(existing, k, v)

merge_dict_key(existing, k, v) ==
    IF IsDict(v)
    THEN LET e0 == IF IsDict(Get(existing, k)) THEN Get(existing, k) ELSE Dict(EmptyD)
         IN  Put(existing, k, merge_dict_fill_only(e0, v))
    ELSE IF IsList(v)
    THEN IF IsList(Get(existing, k)) THEN existing ELSE Put(existing, k, List(<<>>))
    ELSE merge_scalar_fill_only(existing, k, v)

RECURSIVE merge_dict_keys(_, _, _)
merge_dict_keys(existing, new, keys) ==
    IF keys = {} THEN existing
    ELSE LET k == CHOOSE j \in keys : TRUE
         IN  merge_dict_keys(merge_dict_key(existing, k, new.d[k]), new, keys \ {k})

merge_dict_fill_only(existing, new) ==
    LET n == IF Truthy(new) THEN new ELSE Dict(EmptyD)
    IN  merge_dict_keys(existing, n, DOMAIN n.d)

\* An index that was never filled from the existing list.
key_index_forgets_existing(l, key) == [s \in {} |-> 0]

\* for idx, item in enumerate(existing_list): index[str(item[key])] = idx
\* (positions count from 1 here; a later item with the same key wins).
key_index(l, key) ==
    LET keyed == {i \in 1..Len(l) : IsDict(l[i]) /\ Get(l[i], key) \notin {None, Txt("")}}
        sids == {StrOf(Get(l[i], key)) : i \in keyed}
    IN  [s \in sids |->
            CHOOSE i \in keyed :
                /\ StrOf(Get(l[i], key)) = s
                /\ \A j \in keyed : StrOf(Get(l[j], key)) = s => j <= i]

SetAt(l, i, v) == [l EXCEPT ![i] = v]

Present(l, item) == \E j \in 1..Len(l) : l[j] = item

\* The body of `for item in new_list` of merge_list_by_key.  st.l is the
\* existing list, st.index its index, st.alias records for each item
\* consumed the position at which that very object was appended (0: it was
\* not appended), because list.append stores the object, not a copy.
list_step(st, item, key) ==
    IF ~IsDict(item) \/ Get(item, key) \in {None, Txt("")}
    THEN IF ~Present(st.l, item)
         THEN [l |-> Append(st.l, item), index |-> st.index,
               alias |-> Append(st.alias, Len(st.l) + 1)]
         ELSE [st EXCEPT !.alias = Append(st.alias, 0)]
    ELSE LET sid == StrOf(Get(item, key))
         IN  IF sid \in DOMAIN st.index
             THEN [l |-> SetAt(st.l, st.index[sid],
                               merge_dict_fill_only(st.l[st.index[sid]], item)),
                   index |-> st.index,
                   alias |-> Append(st.alias, 0)]
             ELSE [l |-> Append(st.l, item),
                   index |-> [s \in DOMAIN st.index \cup {sid} |->
                                 IF s = sid THEN Len(st.l) + 1 ELSE st.index[s]],
                   alias |-> Append(st.alias, Len(st.l) + 1)]

RECURSIVE merge_list_loop(_, _, _, _)
merge_list_loop(st, new_seq, i, key) ==
    IF i > Len(new_seq) THEN st
    ELSE merge_list_loop(list_step(st, new_seq[i], key), new_seq, i + 1, key)

merge_list_run(existing_list, new_list, key) ==
    LET e == IF IsList(existing_list) THEN existing_list.l ELSE <<>>
        n == IF IsList(new_list) THEN new_list.l ELSE <<>>
    IN  merge_list_loop([l |-> e, index |-> key_index(e, key), alias |-> <<>>], n, 1, key)

merge_list_by_key(existing_list, new_list, key) ==
    List(merge_list_run(existing_list, new_list, key).l)

\* new_list as the caller sees it after the call: the items that were
\* appended are the objects now held by the merged list, with whatever later
\* items of the same key filled into them.
new_list_after(existing_list, new_list, key) ==
    LET st == merge_list_run(existing_list, new_list, key)
    IN  List([i \in 1..Len(new_list.l) |->
                IF st.alias[i] > 0 THEN st.l[st.alias[i]] ELSE new_list.l[i]])

\* merge_list_by_key(x, x, key): both parameters are the same list object,
\* so each item is read when the loop reaches it.
RECURSIVE merge_self_loop(_, _, _)
merge_self_loop(st, i, key) ==
    IF i > Len(st.l) THEN st
    ELSE merge_self_loop(list_step(st, st.l[i], key), i + 1, key)

merge_list_self(x, key) ==
    List(merge_self_loop([l |-> x.l, index |-> key_index(x.l, key), alias |-> <<>>], 1, key).l)

\* x or y or ... or "": the first truthy value of the fields, else "".
RECURSIVE first_truthy(_, _, _)
first_truthy(item, ks, i) ==
    IF i > Len(ks) THEN Txt("")
    ELSE IF Truthy(Get(item, ks[i])) THEN Get(item, ks[i])
    ELSE first_truthy(item, ks, i + 1)

\* hash(body) written as text: of a string (equal strings have equal
\* hashes and, within one process, distinct strings distinct ones; the
\* empty string hashes to 0), of an int (itself) and of a bool (0 or 1).
hash_of(body) ==
    CASE body.t = "str" -> IF body.s = "" THEN "0" ELSE "h<" \o body.s \o ">"
      [] body.t = "int" -> IntStr(body.n)
      [] body.t = "bool" -> IF body.b THEN "1" ELSE "0"

\* What a call returns to its caller when it raises TypeError instead.
TypeError == [t |-> "raise", e |-> "TypeError"]

IdKeys == <<"id", "notice_id", "_id", "update_id">>

RECURSIVE first_id_key(_, _)
first_id_key(item, i) ==
    IF i > Len(IdKeys) THEN 0
    ELSE IF ~is_blank(Get(item, IdKeys[i])) THEN i
    ELSE first_id_key(item, i + 1)

\* hash(body) raises TypeError: the item has no id field and its body is
\* a list or a dict.
fingerprint_raises(item) ==
    /\ IsDict(item) /\ first_id_key(item, 1) = 0
    /\ first_truthy(item, <<"content", "message", "description">>, 1).t \in {"list", "dict"}

fingerprint(item) ==
    IF ~IsDict(item) THEN StrOf(item)
    ELSE LET i == first_id_key(item, 1)
         IN  IF i > 0 THEN IdKeys[i] \o ":" \o StrOf(Get(item, IdKeys[i]))
             ELSE LET ts == first_truthy(item,
                               <<"published_at", "publishedAt", "created_at", "createdAt">>, 1)
                      body == first_truthy(item, <<"content", "message", "description">>, 1)
                  IN  StrOf(ts) \o "|" \o hash_of(body)

\* idx = {fingerprint(item): i for i, item in enumerate(existing_list)}
fp_index(l) ==
    [f \in {fingerprint(l[i]) : i \in 1..Len(l)} |->
        CHOOSE i \in 1..Len(l) :
            /\ fingerprint(l[i]) = f
            /\ \A j \in 1..Len(l) : fingerprint(l[j]) = f => j <= i]

\* The body of `for item in new_list`; st.alias as in list_step.
fp_step(st, item) ==
    LET fp == fingerprint(item)
    IN  IF fp \in DOMAIN st.index
        THEN IF IsDict(st.l[st.index[fp]]) /\ IsDict(item)
             THEN [st EXCEPT !.l = SetAt(st.l, st.index[fp],
                                         merge_dict_fill_only(st.l[st.index[fp]], item)),
                             !.alias = Append(st.alias, 0)]
             ELSE [st EXCEPT !.alias = Append(st.alias, 0)]
        ELSE [l |-> Append(st.l, item),
              index |-> [f \in DOMAIN st.index \cup {fp} |->
                            IF f = fp THEN Len(st.l) + 1 ELSE st.index[f]],
              alias |-> Append(st.alias, Len(st.l) + 1)]

RECURSIVE fp_loop(_, _, _)
fp_loop(st, new_seq, i) ==
    IF i > Len(new_seq) THEN st
    ELSE fp_loop(fp_step(st, new_seq[i]), new_seq, i + 1)

merge_list_replace(existing_list, new_list) ==
    IF IsList(new_list) THEN new_list ELSE List(<<>>)

\* The call raises: fingerprint raises on an existing item while the index
\* is built, or on a new item in the loop.
merge_fp_raises(existing_list, new_list) ==
    LET e == IF IsList(existing_list) THEN existing_list.l ELSE <<>>
    IN  /\ IsList(new_list)
        /\ \/ \E i \in 1..Len(e) : fingerprint_raises(e[i])
           \/ \E i \in 1..Len(new_list.l) : fingerprint_raises(new_list.l[i])

merge_fp_run(existing_list, new_list) ==
    LET e == IF IsList(existing_list) THEN existing_list.l ELSE <<>>
    IN  fp_loop([l |-> e, index |-> fp_index(e), alias |-> <<>>], new_list.l, 1)

merge_list_by_fingerprint(existing_list, new_list) ==
    LET e == IF IsList(existing_list) THEN existing_list.l ELSE <<>>
    IN  IF ~IsList(new_list) THEN List(e)
        ELSE IF merge_fp_raises(existing_list, new_list) THEN TypeError
        ELSE List(merge_fp_run(existing_list, new_list).l)

\* new_list as the caller sees it after a call that returned.
fp_new_list_after(existing_list, new_list) ==
    LET st == merge_fp_run(existing_list, new_list)
    IN  List([i \in 1..Len(new_list.l) |->
                IF st.alias[i] > 0 THEN st.l[st.alias[i]] ELSE new_list.l[i]])

\* {k: v for k, v in new_course.items() if k != "_ok"}
without_ok(x) == Dict([k \in DOMAIN x.d \ {"_ok"} |-> x.d[k]])

\* len(x.get(k, [])) if isinstance(x.get(k), list) else 0
len_of(x, k) == IF IsList(Get(x, k)) THEN Len(Get(x, k).l) ELSE 0

lesson_counts_stale(x) == x

\* video_count, note_count and lesson_count of a lesson, from its lists.
lesson_counts(x) ==
    Put(Put(Put(x, "video_count", Num(len_of(x, "videos"))),
            "note_count", Num(len_of(x, "notes"))),
        "lesson_count", Num(len_of(x, "videos") + len_of(x, "notes")))

\* sum((l.get("lesson_count") or 0) for l in lessons if isinstance(l, dict))
RECURSIVE sum_lesson_count(_, _)
sum_lesson_count(l, i) ==
    IF i > Len(l) THEN 0
    ELSE (IF IsDict(l[i]) /\ Truthy(Get(l[i], "lesson_count"))
          THEN Get(l[i], "lesson_count").n ELSE 0) + sum_lesson_count(l, i + 1)

\* The body of `for lesson in new_lessons` of merge_course.
lesson_step(st, lesson) ==
    IF ~IsDict(lesson) \/ Get(lesson, "lesson_id") \in {None, Txt("")}
    THEN IF ~Present(st.l, lesson) THEN [st EXCEPT !.l = Append(st.l, lesson)] ELSE st
    ELSE LET lid == StrOf(Get(lesson, "lesson_id"))
         IN  IF lid \in DOMAIN st.index
             THEN LET t1 == merge_dict_fill_only(st.l[st.index[lid]], lesson)
                      t2 == Put(t1, "videos",
                                merge_list_by_key(Get(t1, "videos"), Get(lesson, "videos"), "id"))
                      t3 == Put(t2, "notes",
                                merge_list_by_key(Get(t2, "notes"), Get(lesson, "notes"), "id"))
                  IN  [st EXCEPT !.l = SetAt(st.l, st.index[lid], lesson_counts(t3))]
             ELSE [l |-> Append(st.l, lesson_counts(lesson)),
                   index |-> [s \in DOMAIN st.index \cup {lid} |->
                                 IF s = lid THEN Len(st.l) + 1 ELSE st.index[s]]]

RECURSIVE lesson_loop(_, _, _)
lesson_loop(st, new_seq, i) ==
    IF i > Len(new_seq) THEN st
    ELSE lesson_loop(lesson_step(st, new_seq[i]), new_seq, i + 1)

\* merge_course, the block under `if classroom_ok:`.
merge_course_classroom(existing_course, new_course) ==
    LET c1 == Put(existing_course, "classroom",
                  merge_list_by_key(Get(existing_course, "classroom"),
                                    Get(new_course, "classroom"), "id"))
        existing_lessons == IF IsList(Get(c1, "lessons")) THEN Get(c1, "lessons").l ELSE <<>>
        new_lessons == IF IsList(Get(new_course, "lessons"))
                       THEN Get(new_course, "lessons").l ELSE <<>>
        merged == lesson_loop([l |-> existing_lessons,
                               index |-> key_index(existing_lessons, "lesson_id")],
                              new_lessons, 1).l
    IN  Put(Put(c1, "lessons", List(merged)),
            "lesson_count", Num(sum_lesson_count(merged, 1)))

\* merge_course, the block under `if updates_ok:`.
merge_course_updates(existing_course, new_course) ==
    Put(existing_course, "announcements",
        merge_list_by_fingerprint(Get(existing_course, "announcements"),
                                  Get(new_course, "announcements")))

\* bool((new_course.get("_ok") or {}).get(section))
flag(new_course, section) ==
    LET ok == IF Truthy(Get(new_course, "_ok")) THEN Get(new_course, "_ok") ELSE Dict(EmptyD)
    IN  Truthy(Get(ok, section))

merge_course(existing_course, new_course) ==
    LET e1 == merge_dict_fill_only(existing_course, without_ok(new_course))
        e2 == IF flag(new_course, "classroom") THEN merge_course_classroom(e1, new_course) ELSE e1
    IN  IF flag(new_course, "updates") THEN merge_course_updates(e2, new_course) ELSE e2

upsert_always_append(courses, course_id, new_course) == Append(courses, new_course)

\* The position of the first record whose str(course_id) is cid, else 0.
find_course(courses, cid) ==
    IF \E i \in 1..Len(courses) : StrOf(Get(courses[i], "course_id")) = cid
    THEN CHOOSE i \in 1..Len(courses) :
            /\ StrOf(Get(courses[i], "course_id")) = cid
            /\ \A j \in 1..(i - 1) : StrOf(Get(courses[j], "course_id")) # cid
    ELSE 0

upsert_course(courses, course_id, new_course) ==
    LET i == find_course(courses, StrOf(course_id))
    IN  IF i > 0 THEN SetAt(courses, i, merge_course(courses[i], new_course))
        ELSE Append(courses, new_course)

(***************************************************************************)
(* fetch_course_details.  Each safe_get call of the resolver is given by   *)
(* its result (payload, ok); w holds the results this worker gets: one for *)
(* the classroom URL, one per lesson URL, one per video URL, one for the   *)
(* updates URL.  A URL the record does not list is answered (None, False). *)
(***************************************************************************)
Resp(payload, ok) == [payload |-> payload, ok |-> ok]

Failed == Resp(None, FALSE)

\* safe_get(f"{API_BASE}/<kind>/{id}")
fetch(table, id) == IF StrOf(id) \in DOMAIN table THEN table[StrOf(id)] ELSE Failed

\* x.get(k, default)
GetOr(x, k, default) == IF k \in DOMAIN x.d THEN x.d[k] ELSE default

\* A video item built without the detail lookup.
video_item_unresolved(v, w) ==
    LET vid == Get(v, "id")
    IN  Dict([id |-> IF vid # None THEN Txt(StrOf(vid)) ELSE None,
              name |-> GetOr(v, "name", Txt("")),
              published_at |-> GetOr(v, "published_at", Txt("")),
              thumb |-> GetOr(v, "thumb", Txt("")),
              type |-> GetOr(v, "type", Txt("")),
              pdfs |-> IF Get(v, "pdfs") # None THEN Get(v, "pdfs") ELSE List(<<>>),
              m3u |-> Txt(""),
              yt |-> Txt(""),
              video_pdfs |-> None])

video_item(v, w) ==
    LET vid == Get(v, "id")
        r == IF Truthy(vid) THEN fetch(w.video, vid) ELSE Failed
        vd == IF IsDict(r.payload) THEN r.payload ELSE Dict(EmptyD)
    IN  Dict([id |-> IF vid # None THEN Txt(StrOf(vid)) ELSE None,
              name |-> GetOr(v, "name", Txt("")),
              published_at |-> GetOr(v, "published_at", Txt("")),
              thumb |-> GetOr(v, "thumb", Txt("")),
              type |-> GetOr(v, "type", Txt("")),
              pdfs |-> IF Get(v, "pdfs") # None THEN Get(v, "pdfs") ELSE List(<<>>),
              m3u |-> IF r.ok THEN GetOr(vd, "video_url", Txt("")) ELSE Txt(""),
              yt |-> IF r.ok THEN GetOr(vd, "hd_video_url", Txt("")) ELSE Txt(""),
              video_pdfs |-> IF r.ok THEN Get(vd, "pdfs") ELSE None])

note_item(n, w) ==
    LET nid == Get(n, "id")
        r == IF Truthy(nid) THEN fetch(w.video, nid) ELSE Failed
        nd == IF IsDict(r.payload) THEN r.payload ELSE Dict(EmptyD)
    IN  Dict([id |-> IF nid # None THEN Txt(StrOf(nid)) ELSE None,
              name |-> GetOr(n, "name", Txt("")),
              published_at |-> GetOr(n, "published_at", Txt("")),
              thumb |-> GetOr(n, "thumb", Txt("")),
              type |-> GetOr(n, "type", Txt("pdf")),
              resolved_url |-> IF r.ok THEN GetOr(nd, "video_url", Txt("")) ELSE Txt(""),
              yt |-> IF r.ok THEN GetOr(nd, "hd_video_url", Txt("")) ELSE Txt(""),
              pdfs |-> IF r.ok THEN Get(nd, "pdfs") ELSE None])

\* [f(x) for x in xs if isinstance(x, dict)], f one of the two above.
RECURSIVE video_items(_, _, _)
video_items(xs, w, i) ==
    IF i > Len(xs) THEN <<>>
    ELSE (IF IsDict(xs[i]) THEN <<video_item(xs[i], w)>> ELSE <<>>) \o video_items(xs, w, i + 1)

RECURSIVE note_items(_, _, _)
note_items(xs, w, i) ==
    IF i > Len(xs) THEN <<>>
    ELSE (IF IsDict(xs[i]) THEN <<note_item(xs[i], w)>> ELSE <<>>) \o note_items(xs, w, i + 1)

\* The lesson record built from one classroom entry and its lesson detail.
lesson_record(cls, lesson_data, w) ==
    LET videos_out == video_items(ensure_list(Get(lesson_data, "videos")), w, 1)
        notes_out == note_items(ensure_list(Get(lesson_data, "notes")), w, 1)
    IN  Dict([lesson_id |-> IF Get(lesson_data, "id") # None
                            THEN Txt(StrOf(Get(lesson_data, "id")))
                            ELSE Txt(StrOf(Get(cls, "id"))),
              lesson_name |-> IF Truthy(GetOr(lesson_data, "name", Txt("")))
                              THEN GetOr(lesson_data, "name", Txt(""))
                              ELSE GetOr(cls, "name", Txt("")),
              teacher |-> GetOr(lesson_data, "teacher", Dict(EmptyD)),
              video_count |-> Num(Len(videos_out)),
              note_count |-> Num(Len(notes_out)),
              lesson_count |-> Num(Len(videos_out) + Len(notes_out)),
              videos |-> List(videos_out),
              notes |-> List(notes_out)])

\* for cls in classroom: ... out["lessons"].append(...)
RECURSIVE lessons_of(_, _, _)
lessons_of(classroom, w, i) ==
    IF i > Len(classroom) THEN <<>>
    ELSE LET cls == classroom[i]
             r == IF IsDict(cls) /\ Truthy(Get(cls, "id")) THEN fetch(w.lesson, Get(cls, "id"))
                  ELSE Failed
         IN  (IF r.ok /\ IsDict(r.payload) THEN <<lesson_record(cls, r.payload, w)>> ELSE <<>>)
                 \o lessons_of(classroom, w, i + 1)

fetch_course_details(course, rank, now, w) ==
    LET cid == Get(course, "id")
        listed == w.classroom.ok /\ IsDict(w.classroom.payload)
        classroom == IF listed THEN ensure_list(Get(w.classroom.payload, "classroom")) ELSE <<>>
        lessons == IF listed THEN lessons_of(classroom, w, 1) ELSE <<>>
    IN  Dict([ranking |-> Num(rank),
              course_id |-> IF cid # None THEN Txt(StrOf(cid)) ELSE None,
              course_name |-> IF Truthy(Get(course, "title")) THEN Get(course, "title")
                              ELSE Txt(""),
              category_id |-> Get(course, "category_id"),
              start_at |-> Get(course, "start_at"),
              end_at |-> Get(course, "end_at"),
              image_large |-> Get(course, "image_large"),
              image_thumb |-> Get(course, "image_thumb"),
              classroom |-> List(classroom),
              lessons |-> List(lessons),
              announcements |-> IF w.updates.ok THEN List(ensure_list(w.updates.payload))
                                ELSE List(<<>>),
              lesson_count |-> Num(sum_lesson_count(lessons, 1)),
              fetched_at |-> now,
              _ok |-> Dict([classroom |-> Bool(w.classroom.ok),
                            updates |-> Bool(w.updates.ok)])])

(***************************************************************************)
(* main: one run of the harvester per process, run after run over the same *)
(* store file.                                                             *)
(*   pc               where main stands                                    *)
(*   run              the number of this run (the clock of fetched_at)     *)
(*   batches_got      what safe_get(BATCHES_URL) returned in this run,     *)
(*                    (None, False) until it has returned                  *)
(*   master_file      master_courses.json: absent, or its parsed content   *)
(*   tmp_file         master_courses.json.tmp, likewise                    *)
(*   skip_push        this run wrote the SKIP_PUSH file                    *)
(*   filtered_courses, master_json, results   the locals of main           *)
(*   pending          the futures not yet completed, by rank               *)
(*   idx              the position of `for r in results`                   *)
(*   file_at_start    master_file when the run started                     *)
(*   last_upsert      the latest upsert_course call of the merge loop:     *)
(*                    the record it found (before the merge), the snapshot *)
(*                    and the position of the record                       *)
(***************************************************************************)
MaxRuns == 2

\* A file: absent, or holding the JSON text of data.  whole is FALSE while
\* the text is still being written (open(path, "w") truncated the file and
\* json.dump has put only a prefix of the text of data on disk).
NoFile == [exists |-> FALSE, whole |-> TRUE, data |-> <<>>]
File(data) == [exists |-> TRUE, whole |-> TRUE, data |-> data]
Torn(data) == [exists |-> TRUE, whole |-> FALSE, data |-> data]

NoUpsert == [kind |-> "none", at |-> 0, before |-> None, new |-> None]

\* What the keyword patterns built from KEYWORDS = "72 bpsc" answer for
\* the lower-cased title, for the titles the catalog of this model uses.
keyword_match(title) == title \in {"72 bpsc prelims", "72nd BPSC Mains"}

\* for item in batches: keep the dicts whose title matches a pattern.
RECURSIVE filter_courses(_, _)
filter_courses(batches, i) ==
    IF i > Len(batches) THEN <<>>
    ELSE (IF IsDict(batches[i]) /\ Truthy(Get(batches[i], "title"))
             /\ keyword_match(Get(batches[i], "title").s)
          THEN <<batches[i]>> ELSE <<>>) \o filter_courses(batches, i + 1)

\* json.load of the store file; a course_id that is not None becomes its
\* str().  A missing file is the empty list.
load_master_json(file) ==
    IF ~file.exists THEN <<>>
    ELSE [i \in 1..Len(file.data) |->
            IF IsDict(file.data[i]) /\ Get(file.data[i], "course_id") # None
            THEN Put(file.data[i], "course_id", Txt(StrOf(Get(file.data[i], "course_id"))))
            ELSE file.data[i]]

\* A cleanup that leaves the records as they are.
strip_nothing(data) == data

\* for c in master_json: c.pop("_ok", None)
strip_ok(data) == [i \in 1..Len(data) |-> IF IsDict(data[i]) THEN without_ok(data[i]) ELSE data[i]]

any_ok_ignores_flags(rs) == rs # <<>>

\* An outage test that takes a snapshot as good only if both sections are.
any_ok_needs_both(rs) ==
    \E i \in 1..Len(rs) :
        LET ok == GetOr(rs[i], "_ok", Dict(EmptyD))
        IN  Truthy(Get(ok, "classroom")) /\ Truthy(Get(ok, "updates"))

any_ok_anywhere(rs) ==
    \E i \in 1..Len(rs) :
        LET ok == GetOr(rs[i], "_ok", Dict(EmptyD))
        IN  Truthy(Get(ok, "classroom")) \/ Truthy(Get(ok, "updates"))

(***************************************************************************)
(* The remote API of the model: catalog entries, catalog responses, and    *)
(* the sets of detail responses a worker may get.                          *)
(***************************************************************************)
Course5 == Dict([id |-> Num(5), title |-> Txt("72 bpsc prelims"), category_id |-> None])
Course5Text ==
    Dict([id |-> Txt("5"), title |-> Txt("72 bpsc prelims"), category_id |-> Txt("gs"),
          image_large |-> Dict([url |-> Txt("u")])])
Course7 == Dict([id |-> Txt("7"), title |-> Txt("72nd BPSC Mains"), image_large |-> Txt("img")])
Course9 == Dict([id |-> Txt("9"), title |-> Txt("upsc 2025")])
CourseNoId == Dict([title |-> Txt("72 bpsc prelims")])

CatalogResponses ==
    { Failed,
      Resp(None, TRUE),
      Resp(List(<<>>), TRUE),
      Resp(List(<<Course9, Txt("junk")>>), TRUE),
      Resp(Course7, TRUE),
      Resp(List(<<Course5>>), TRUE),
      Resp(List(<<Course5Text>>), TRUE),
      Resp(List(<<Course5, Course5Text>>), TRUE),
      Resp(List(<<Course9, Course5Text, Course7>>), TRUE),
      Resp(List(<<CourseNoId>>), TRUE) }

NoTable == [k \in {} |-> Failed]

WorldFail == [classroom |-> Failed, lesson |-> NoTable, video |-> NoTable, updates |-> Failed]

WorldFirst ==
    [classroom |-> Resp(Dict([classroom |-> List(<<Dict([id |-> Txt("c1")])>>)]), TRUE),
     lesson |-> ("c1" :> Resp(Dict([id |-> Txt("L1"), name |-> Txt("Intro"),
                                    videos |-> List(<<Dict([id |-> Txt("v1"),
                                                            name |-> Txt("Lec1")])>>),
                                    notes |-> List(<<>>)]), TRUE)),
     video |-> ("v1" :> Resp(Dict([video_url |-> Txt("m3u://x")]), TRUE)),
     updates |-> Failed]

WorldMore ==
    [classroom |-> Resp(Dict([classroom |-> List(<<Dict([id |-> Txt("c1"),
                                                         name |-> Txt("Week 1")]),
                                                   Dict([id |-> Txt("c2")])>>)]), TRUE),
     lesson |-> ("c1" :> Resp(Dict([id |-> Txt("L1"), name |-> Txt("Intro"),
                                    teacher |-> Txt("T"),
                                    videos |-> List(<<Dict([id |-> Txt("v1")]),
                                                      Dict([id |-> Num(2),
                                                            name |-> Txt("Lec2")])>>),
                                    notes |-> List(<<Dict([id |-> Txt("n1")])>>)]), TRUE))
                @@ ("c2" :> Resp(Dict([id |-> Num(2),
                                       videos |-> List(<<>>),
                                       notes |-> List(<<Dict([name |-> Txt("loose")])>>)]),
                                 TRUE)),
     video |-> NoTable,
     updates |-> Resp(List(<<Dict([id |-> Num(1), content |-> Txt("hello")])>>), TRUE)]

WorldUpdates ==
    [classroom |-> Failed, lesson |-> NoTable, video |-> NoTable,
     updates |-> Resp(List(<<Dict([id |-> Txt("1"), content |-> Txt("hello"),
                                   title |-> Txt("t")]),
                             Dict([content |-> Txt("bye"),
                                   published_at |-> Txt("d1")])>>), TRUE)]

WorldDup ==
    [classroom |-> Resp(Dict([classroom |-> List(<<Dict([id |-> Txt("c1")]),
                                                   Dict([id |-> Txt("c1")])>>)]), TRUE),
     lesson |-> ("c1" :> Resp(Dict([id |-> Txt("L1"),
                                    videos |-> List(<<Dict([id |-> Txt("v1")]),
                                                      Dict([id |-> Txt("v1")])>>)]), TRUE)),
     video |-> NoTable,
     updates |-> Resp(List(<<>>), TRUE)]

WorldNoLessons ==
    [classroom |-> Resp(Dict([classroom |-> Dict([id |-> Txt("c3")])]), TRUE),
     lesson |-> NoTable, video |-> NoTable, updates |-> Failed]

Worlds == {WorldFail, WorldFirst, WorldMore, WorldUpdates, WorldDup, WorldNoLessons}

\* datetime.now(timezone.utc).isoformat() during run r
now(r) == Txt("t" \o IntStr(r))

(***************************************************************************)
(* The steps of main.                                                      *)
(***************************************************************************)
PipeIdle ==
    /\ pc = "off" /\ run = 0 /\ batches_got = Failed /\ master_file = NoFile /\ tmp_file = NoFile
    /\ skip_push = FALSE /\ filtered_courses = <<>> /\ master_json = <<>>
    /\ pending = {} /\ results = <<>> /\ idx = 0
    /\ file_at_start = NoFile /\ last_upsert = NoUpsert

\* The first process starts; there is no store file yet.
PipeInit ==
    /\ pc = "start" /\ run = 1 /\ batches_got = Failed /\ master_file = NoFile /\ tmp_file = NoFile
    /\ skip_push = FALSE /\ filtered_courses = <<>> /\ master_json = <<>>
    /\ pending = {} /\ results = <<>> /\ idx = 0
    /\ file_at_start = NoFile /\ last_upsert = NoUpsert

Others == UNCHANGED <<gvars, mvars, fvars>>

\* if not batches_ok or not batches: write SKIP_PUSH, exit
MainCatalogFails ==
    /\ pc = "start"
    /\ \E r \in CatalogResponses :
          /\ ~r.ok \/ ensure_list(r.payload) = <<>>
          /\ batches_got' = r
    /\ skip_push' = TRUE
    /\ pc' = "exit"
    /\ UNCHANGED <<run, master_file, tmp_file, filtered_courses, master_json, pending,
                   results, idx, file_at_start, last_upsert>>
    /\ Others

\* if not filtered_courses: save_master_json(load_master_json()), up to
\* the opening of the temporary file.  (json.load of a torn store file
\* raises and main ends with RuntimeError before anything is written.)
MainNoMatches ==
    /\ pc = "start" /\ master_file.whole
    /\ \E r \in CatalogResponses :
          /\ r.ok /\ ensure_list(r.payload) # <<>>
          /\ filter_courses(ensure_list(r.payload), 1) = <<>>
          /\ batches_got' = r
    /\ tmp_file' = Torn(load_master_json(master_file))
    /\ pc' = "writing"
    /\ UNCHANGED <<run, master_file, skip_push, filtered_courses, master_json, pending,
                   results, idx, file_at_start, last_upsert>>
    /\ Others

\* master_json = load_master_json(); one future per filtered course.
MainSubmit ==
    /\ pc = "start" /\ master_file.whole
    /\ \E r \in CatalogResponses :
          /\ r.ok /\ ensure_list(r.payload) # <<>>
          /\ filter_courses(ensure_list(r.payload), 1) # <<>>
          /\ filtered_courses' = filter_courses(ensure_list(r.payload), 1)
          /\ batches_got' = r
    /\ master_json' = load_master_json(master_file)
    /\ results' = <<>>
    /\ pending' = 1..Len(filtered_courses')
    /\ pc' = "fetching"
    /\ UNCHANGED <<run, master_file, tmp_file, skip_push, idx, file_at_start, last_upsert>>
    /\ Others

\* A worker returns its snapshot; as_completed hands it to main.
WorkerDone ==
    /\ pc = "fetching"
    /\ \E i \in pending, w \in Worlds :
          /\ results' = Append(results, fetch_course_details(filtered_courses[i], i, now(run), w))
          /\ pending' = pending \ {i}
    /\ UNCHANGED <<pc, run, batches_got, master_file, tmp_file, skip_push, filtered_courses, master_json,
                   idx, file_at_start, last_upsert>>
    /\ Others

\* if not any_ok_anywhere: write SKIP_PUSH, exit
MainOutage ==
    /\ pc = "fetching" /\ pending = {}
    /\ ~any_ok_anywhere(results)
    /\ skip_push' = TRUE
    /\ pc' = "exit"
    /\ UNCHANGED <<run, batches_got, master_file, tmp_file, filtered_courses, master_json, pending,
                   results, idx, file_at_start, last_upsert>>
    /\ Others

MainMergeBegins ==
    /\ pc = "fetching" /\ pending = {}
    /\ any_ok_anywhere(results)
    /\ pc' = "merging"
    /\ idx' = 1
    /\ UNCHANGED <<run, batches_got, master_file, tmp_file, skip_push, filtered_courses, master_json,
                   pending, results, file_at_start, last_upsert>>
    /\ Others

\* One iteration of `for r in results`.
MainUpsert ==
    /\ pc = "merging" /\ idx <= Len(results)
    /\ LET r == results[idx]
           cid == Get(r, "course_id")
           at == find_course(master_json, StrOf(cid))
       IN  IF Truthy(cid)
           THEN /\ master_json' = upsert_course(master_json, cid, r)
                /\ last_upsert' = IF at > 0
                                  THEN [kind |-> "merge", at |-> at,
                                        before |-> master_json[at], new |-> r]
                                  ELSE [kind |-> "append", at |-> Len(master_json) + 1,
                                        before |-> None, new |-> r]
           ELSE /\ UNCHANGED master_json
                /\ last_upsert' = [kind |-> "skip", at |-> 0, before |-> None, new |-> r]
    /\ idx' = idx + 1
    /\ UNCHANGED <<pc, run, batches_got, master_file, tmp_file, skip_push, filtered_courses, pending,
                   results, file_at_start>>
    /\ Others

\* The _ok keys are removed and save_master_json opens the temporary file.
MainSave ==
    /\ pc = "merging" /\ idx > Len(results)
    /\ master_json' = strip_ok(master_json)
    /\ tmp_file' = Torn(strip_ok(master_json))
    /\ pc' = "writing"
    /\ UNCHANGED <<run, batches_got, master_file, skip_push, filtered_courses, pending, results, idx,
                   file_at_start, last_upsert>>
    /\ Others

\* A save that writes through to the store file while it dumps.
MainWrittenInPlace ==
    /\ pc = "writing"
    /\ tmp_file' = File(tmp_file.data)
    /\ master_file' = Torn(tmp_file.data)
    /\ pc' = "saving"
    /\ UNCHANGED <<run, batches_got, skip_push, filtered_courses, master_json, pending, results, idx,
                   file_at_start, last_upsert>>
    /\ Others

\* json.dump has written the whole text and the `with` block closed the
\* temporary file.
MainWritten ==
    /\ pc = "writing"
    /\ tmp_file' = File(tmp_file.data)
    /\ pc' = "saving"
    /\ UNCHANGED <<run, batches_got, master_file, skip_push, filtered_courses, master_json, pending,
                   results, idx, file_at_start, last_upsert>>
    /\ Others

\* os.replace(tmp, MASTER_JSON_FILE), and main returns.
MainReplace ==
    /\ pc = "saving"
    /\ master_file' = tmp_file
    /\ tmp_file' = NoFile
    /\ pc' = "exit"
    /\ UNCHANGED <<run, batches_got, skip_push, filtered_courses, master_json, pending, results, idx,
                   file_at_start, last_upsert>>
    /\ Others

\* The process has ended; the next run is a new process over the same files.
NextRun ==
    /\ pc \in {"exit", "crashed"} /\ run < MaxRuns
    /\ run' = run + 1
    /\ pc' = "start"
    /\ batches_got' = Failed
    /\ skip_push' = FALSE
    /\ filtered_courses' = <<>> /\ master_json' = <<>>
    /\ pending' = {} /\ results' = <<>> /\ idx' = 0
    /\ file_at_start' = master_file
    /\ last_upsert' = NoUpsert
    /\ UNCHANGED <<master_file, tmp_file>>
    /\ Others

main ==
    \/ MainCatalogFails
    \/ MainNoMatches
    \/ MainSubmit
    \/ WorkerDone
    \/ MainOutage
    \/ MainMergeBegins
    \/ MainUpsert
    \/ MainSave
    \/ MainWritten
    \/ MainReplace
    \/ NextRun

\* The process is killed while save_master_json runs: after the temporary
\* file was opened, or after it was closed and before os.replace.  The
\* files stay as they are.
Crash ==
    /\ pc \in {"writing", "saving"}
    /\ pc' = "crashed"
    /\ UNCHANGED <<run, batches_got, master_file, tmp_file, skip_push, filtered_courses, master_json,
                   pending, results, idx, file_at_start, last_upsert>>
    /\ Others

main_or_crash ==
    \/ main
    \/ Crash

(***************************************************************************)
(* safe_get: one GET with retries, one step per attempt.  g_max is the     *)
(* configured MAX_RETRIES, g_attempt the loop variable, g_hist the outcome *)
(* of each attempt so far, g_sleeps the number of backoff sleeps, g_ret    *)
(* what the call returned.                                                 *)
(***************************************************************************)
\* int(os.getenv("MAX_RETRIES", "5"))
MAX_RETRIES == 5

Pair(payload, ok) == [kind |-> "pair", payload |-> payload, ok |-> ok]

\* What a Python function returns when it ends without a return statement.
NoReturnValue == [kind |-> "none"]

Payloads == {None, Dict(EmptyD), List(<<Num(1)>>)}

Transient == {"5xx", "exception"}

GetIdle ==
    /\ g_max = 0 /\ g_attempt = 0 /\ g_hist = <<>> /\ g_sleeps = 0
    /\ g_ret = NoReturnValue /\ g_pc = "off"

\* The call starts; range(1, MAX_RETRIES + 1) is about to yield 1.
GetInit ==
    /\ g_max \in 0..MAX_RETRIES
    /\ g_attempt = 1 /\ g_hist = <<>> /\ g_sleeps = 0
    /\ g_ret = NoReturnValue /\ g_pc = "loop"

\* A retry that backs off after every transient attempt, the last included.
retry_sleeps_after_last(outcome) ==
    /\ g_hist' = Append(g_hist, outcome)
    /\ g_sleeps' = g_sleeps + 1
    /\ IF g_attempt < g_max
       THEN /\ g_attempt' = g_attempt + 1
            /\ UNCHANGED <<g_ret, g_pc>>
       ELSE /\ g_ret' = Pair(None, FALSE) /\ g_pc' = "returned"
            /\ UNCHANGED g_attempt

\* A 500/502/503/504 status or a requests.RequestException: sleep and
\* continue while attempt < MAX_RETRIES, else return None, False.
retry_or_fail(outcome) ==
    /\ g_hist' = Append(g_hist, outcome)
    /\ IF g_attempt < g_max
       THEN /\ g_sleeps' = g_sleeps + 1 /\ g_attempt' = g_attempt + 1
            /\ UNCHANGED <<g_ret, g_pc>>
       ELSE /\ g_ret' = Pair(None, FALSE) /\ g_pc' = "returned"
            /\ UNCHANGED <<g_sleeps, g_attempt>>

GetServerError ==
    /\ g_pc = "loop" /\ g_attempt <= g_max
    /\ retry_or_fail("5xx")
    /\ UNCHANGED <<g_max, pvars, mvars, fvars>>

GetException ==
    /\ g_pc = "loop" /\ g_attempt <= g_max
    /\ retry_or_fail("exception")
    /\ UNCHANGED <<g_max, pvars, mvars, fvars>>

\* if code != 200: return None, False
GetOtherStatus ==
    /\ g_pc = "loop" /\ g_attempt <= g_max
    /\ g_hist' = Append(g_hist, "status")
    /\ g_ret' = Pair(None, FALSE) /\ g_pc' = "returned"
    /\ UNCHANGED <<g_max, g_attempt, g_sleeps, pvars, mvars, fvars>>

\* r.json() raises: return None, False
GetBadBody ==
    /\ g_pc = "loop" /\ g_attempt <= g_max
    /\ g_hist' = Append(g_hist, "badbody")
    /\ g_ret' = Pair(None, FALSE) /\ g_pc' = "returned"
    /\ UNCHANGED <<g_max, g_attempt, g_sleeps, pvars, mvars, fvars>>

\* return r.json(), True
GetOk ==
    /\ g_pc = "loop" /\ g_attempt <= g_max
    /\ \E payload \in Payloads :
          /\ g_hist' = Append(g_hist, "ok")
          /\ g_ret' = Pair(payload, TRUE) /\ g_pc' = "returned"
    /\ UNCHANGED <<g_max, g_attempt, g_sleeps, pvars, mvars, fvars>>

\* The range is exhausted: the function body ends without a return.
GetLoopEnds ==
    /\ g_pc = "loop" /\ g_attempt > g_max
    /\ g_ret' = NoReturnValue /\ g_pc' = "returned"
    /\ UNCHANGED <<g_max, g_attempt, g_hist, g_sleeps, pvars, mvars, fvars>>

safe_get ==
    \/ GetServerError
    \/ GetException
    \/ GetOtherStatus
    \/ GetBadBody
    \/ GetOk
    \/ GetLoopEnds

(***************************************************************************)
(* The merge operators applied to bounded inputs.                          *)
(***************************************************************************)
MaxLen == 2

SeqsUpTo(S, n) == UNION {[1..k -> S] : k \in 0..n}

Scalars == {None, Txt(""), Txt("a"), Txt("b"), Num(0), Num(5)}
Leaves == Scalars \cup {List(<<>>), List(<<Txt("a")>>)}
InnerDicts == {Dict(EmptyD)} \cup {Dict([c |-> v]) : v \in Leaves}
Values == Leaves \cup InnerDicts \cup {Dict([c |-> Dict([d |-> Txt("a")])]),
                                      Dict([c |-> Dict([d |-> Txt("")])])}
Records ==
    {Dict(EmptyD)} \cup {Dict([a |-> v]) : v \in Values}
        \cup {Dict([b |-> w]) : w \in {None, Txt("b")}}
        \cup {Dict([a |-> v, b |-> w]) : v \in Values, w \in {None, Txt("b")}}

Items ==
    { Txt("s"),
      Dict([id |-> Num(1), a |-> Txt("")]),
      Dict([id |-> Txt("1"), a |-> Txt("x")]),
      Dict([id |-> Num(1), a |-> Dict([c |-> Txt("x")])]),
      Dict([id |-> None, a |-> Txt("x")]),
      Dict([id |-> Txt("2"), a |-> List(<<>>)]),
      Dict([id |-> Txt("2"), a |-> Txt("y")]) }

FpItems ==
    { Txt("s"),
      Dict([id |-> Num(1), content |-> Txt("")]),
      Dict([id |-> Txt("1"), content |-> Txt("x")]),
      Dict([id |-> Txt(""), notice_id |-> Txt("n")]),
      Dict([published_at |-> Txt("d"), content |-> Txt("x")]),
      Dict([createdAt |-> Txt("d"), message |-> Txt("x"), title |-> Txt("t")]),
      Dict([title |-> Txt("t"), content |-> List(<<Txt("a")>>)]) }

\* The lists an earlier merge_list_by_fingerprint call can have returned
\* with one entry per fingerprint.
FpLists ==
    {List(l) : l \in {q \in SeqsUpTo(FpItems, MaxLen) :
                        /\ \A i \in 1..Len(q) : ~fingerprint_raises(q[i])
                        /\ \A i, j \in 1..Len(q) :
                              fingerprint(q[i]) = fingerprint(q[j]) => i = j}}

MergeIdle ==
    /\ m_mode = "off" /\ m_existing = None /\ m_new = None /\ m_key = ""
    /\ m_first = None /\ m_newobj = None /\ m_out = None /\ m_pc = "off"

MergeInit ==
    /\ m_first = None /\ m_newobj = None /\ m_out = None /\ m_pc = "start"
    /\ \/ /\ m_mode = "scalar"
          /\ m_existing \in Records
          /\ m_key \in {"a", "b", "z"}
          /\ m_new \in Scalars
       \/ /\ m_mode = "dict"
          /\ m_existing \in Records
          /\ m_new \in Records
          /\ m_key = ""
       \/ /\ m_mode = "list"
          /\ m_existing \in {List(l) : l \in SeqsUpTo(Items, MaxLen)}
          /\ m_new \in {List(l) : l \in SeqsUpTo(Items, MaxLen)}
          /\ m_key = "id"
       \/ /\ m_mode = "fp"
          /\ m_existing \in FpLists
          /\ m_new \in {List(l) : l \in SeqsUpTo(FpItems, MaxLen)}
          /\ m_key = ""

ApplyScalar ==
    /\ m_mode = "scalar" /\ m_pc = "start"
    /\ m_out' = merge_scalar_fill_only(m_existing, m_key, m_new)
    /\ m_pc' = "filled"
    /\ UNCHANGED <<m_mode, m_existing, m_new, m_key, m_first, m_newobj, pvars, gvars, fvars>>

ApplyDict ==
    /\ m_mode = "dict" /\ m_pc = "start"
    /\ m_out' = merge_dict_fill_only(m_existing, m_new)
    /\ m_pc' = "merged"
    /\ UNCHANGED <<m_mode, m_existing, m_new, m_key, m_first, m_newobj, pvars, gvars, fvars>>

\* merged = merge_list_by_key(existing, new, key)
ApplyList ==
    /\ m_mode = "list" /\ m_pc = "start"
    /\ m_out' = merge_list_by_key(m_existing, m_new, m_key)
    /\ m_first' = merge_list_by_key(m_existing, m_new, m_key)
    /\ m_newobj' = new_list_after(m_existing, m_new, m_key)
    /\ m_pc' = "merged"
    /\ UNCHANGED <<m_mode, m_existing, m_new, m_key, pvars, gvars, fvars>>

\* merge_list_by_key(merged, new, key), with the same list object `new`.
ApplyListAgainSame ==
    /\ m_mode = "list" /\ m_pc = "merged"
    /\ m_out' = merge_list_by_key(m_first, m_newobj, m_key)
    /\ m_pc' = "again_same"
    /\ UNCHANGED <<m_mode, m_existing, m_new, m_key, m_first, m_newobj, pvars, gvars, fvars>>

\* merge_list_by_key(merged, new2, key), new2 a fresh list equal to `new`
\* as it was before the first call (the same data fetched again).
ApplyListAgainEqual ==
    /\ m_mode = "list" /\ m_pc = "merged"
    /\ m_out' = merge_list_by_key(m_first, m_new, m_key)
    /\ m_pc' = "again_equal"
    /\ UNCHANGED <<m_mode, m_existing, m_new, m_key, m_first, m_newobj, pvars, gvars, fvars>>

\* merge_list_by_key(existing, existing, key)
ApplyListSelf ==
    /\ m_mode = "list" /\ m_pc = "start"
    /\ m_out' = merge_list_self(m_existing, m_key)
    /\ m_pc' = "self"
    /\ UNCHANGED <<m_mode, m_existing, m_new, m_key, m_first, m_newobj, pvars, gvars, fvars>>

\* merged = merge_list_by_fingerprint(existing, new)
ApplyFp ==
    /\ m_mode = "fp" /\ m_pc = "start"
    /\ m_out' = merge_list_by_fingerprint(m_existing, m_new)
    /\ m_first' = merge_list_by_fingerprint(m_existing, m_new)
    /\ m_newobj' = IF merge_fp_raises(m_existing, m_new) THEN m_new
                   ELSE fp_new_list_after(m_existing, m_new)
    /\ m_pc' = "fp_merged"
    /\ UNCHANGED <<m_mode, m_existing, m_new, m_key, pvars, gvars, fvars>>

\* merge_list_by_fingerprint(merged, new), with the same list object `new`.
ApplyFpAgainSame ==
    /\ m_mode = "fp" /\ m_pc = "fp_merged" /\ m_first # TypeError
    /\ m_out' = merge_list_by_fingerprint(m_first, m_newobj)
    /\ m_pc' = "fp_again_same"
    /\ UNCHANGED <<m_mode, m_existing, m_new, m_key, m_first, m_newobj, pvars, gvars, fvars>>

\* merge_list_by_fingerprint(merged, new2), new2 a fresh list equal to `new`.
ApplyFpAgainEqual ==
    /\ m_mode = "fp" /\ m_pc = "fp_merged" /\ m_first # TypeError
    /\ m_out' = merge_list_by_fingerprint(m_first, m_new)
    /\ m_pc' = "fp_again_equal"
    /\ UNCHANGED <<m_mode, m_existing, m_new, m_key, m_first, m_newobj, pvars, gvars, fvars>>

MergeNext ==
    \/ ApplyScalar
    \/ ApplyDict
    \/ ApplyList
    \/ ApplyListAgainSame
    \/ ApplyListAgainEqual
    \/ ApplyListSelf
    \/ ApplyFp
    \/ ApplyFpAgainSame
    \/ ApplyFpAgainEqual

(***************************************************************************)
(* fetch_course_details call by call: one step per safe_get of the         *)
(* classroom, of a lesson (with the item lookups of that lesson) and of    *)
(* the updates.  f_w holds the result of each call, f_calls the URLs       *)
(* requested so far, f_out the dict `out`, f_i the position of             *)
(* `for cls in classroom`.                                                 *)
(***************************************************************************)
\* f"{API_BASE}/<kind>/{id}"
Call(kind, id) == [kind |-> kind, id |-> StrOf(id)]

\* The /video/ URLs requested for the references xs of one lesson.
RECURSIVE item_calls(_, _)
item_calls(xs, i) ==
    IF i > Len(xs) THEN <<>>
    ELSE (IF IsDict(xs[i]) /\ Truthy(Get(xs[i], "id"))
          THEN <<Call("video", Get(xs[i], "id"))>> ELSE <<>>) \o item_calls(xs, i + 1)

\* out = {...} as built before the first call.
out_start(course, rank, at) ==
    LET cid == Get(course, "id")
    IN  Dict([ranking |-> Num(rank),
              course_id |-> IF cid # None THEN Txt(StrOf(cid)) ELSE None,
              course_name |-> IF Truthy(Get(course, "title")) THEN Get(course, "title")
                              ELSE Txt(""),
              category_id |-> Get(course, "category_id"),
              start_at |-> Get(course, "start_at"),
              end_at |-> Get(course, "end_at"),
              image_large |-> Get(course, "image_large"),
              image_thumb |-> Get(course, "image_thumb"),
              classroom |-> List(<<>>),
              lessons |-> List(<<>>),
              announcements |-> List(<<>>),
              lesson_count |-> Num(0),
              fetched_at |-> at,
              _ok |-> Dict([classroom |-> Bool(FALSE), updates |-> Bool(FALSE)])])

ClassroomResponses ==
    { Failed,
      Resp(List(<<>>), TRUE),
      Resp(Dict([classroom |-> Dict([id |-> Txt("c1")])]), TRUE),
      Resp(Dict([classroom |-> List(<<Dict([id |-> Txt("c1"), name |-> Txt("Week 1")]),
                                      Txt("junk"),
                                      Dict([name |-> Txt("no id")]),
                                      Dict([id |-> Num(2)])>>)]), TRUE) }

LessonResponses1 ==
    { Failed,
      Resp(Txt("text"), TRUE),
      Resp(Dict([id |-> Txt("L1"),
                 videos |-> List(<<Dict([id |-> Txt("v1")]),
                                   Dict([name |-> Txt("no id")]),
                                   Txt("junk")>>),
                 notes |-> List(<<Dict([id |-> Txt("n1")])>>)]), TRUE) }

LessonResponses2 ==
    { Failed,
      Resp(Dict([videos |-> Dict([id |-> Txt("v1")])]), TRUE) }

VideoResponses ==
    { Failed,
      Resp(List(<<>>), TRUE),
      Resp(Dict([video_url |-> Txt("m3u://x"), hd_video_url |-> Txt("yt://x"),
                 pdfs |-> List(<<Txt("p")>>)]), TRUE) }

NoteResponses == {Failed, Resp(Dict([video_url |-> Txt("doc://n")]), TRUE)}

UpdatesResponses ==
    { Failed,
      Resp(None, TRUE),
      Resp(List(<<Dict([id |-> Num(1), content |-> Txt("hello")])>>), TRUE) }

ResolverWorlds ==
    { [classroom |-> c, lesson |-> ("c1" :> l1) @@ ("2" :> l2),
       video |-> ("v1" :> v) @@ ("n1" :> n), updates |-> u] :
        c \in ClassroomResponses, l1 \in LessonResponses1, l2 \in LessonResponses2,
        v \in VideoResponses, n \in NoteResponses, u \in UpdatesResponses }

FetchIdle ==
    /\ f_course = None /\ f_w = WorldFail /\ f_pc = "off" /\ f_i = 0
    /\ f_calls = <<>> /\ f_out = None

\* The call starts: out is built, no request has been made.
FetchInit ==
    /\ f_course \in {Course5, CourseNoId}
    /\ f_w \in ResolverWorlds
    /\ f_pc = "classroom" /\ f_i = 0 /\ f_calls = <<>>
    /\ f_out = out_start(f_course, 1, now(1))

SetFlag(out, section, ok) == Put(out, "_ok", Put(Get(out, "_ok"), section, Bool(ok)))

\* classroom_data, classroom_ok = safe_get(.../classroom/{cid})
FetchClassroom ==
    /\ f_pc = "classroom"
    /\ LET r == f_w.classroom
           listed == r.ok /\ IsDict(r.payload)
           o1 == SetFlag(f_out, "classroom", r.ok)
       IN  /\ f_calls' = Append(f_calls, Call("classroom", Get(f_course, "id")))
           /\ f_out' = IF listed
                       THEN Put(o1, "classroom",
                                List(ensure_list(Get(r.payload, "classroom"))))
                       ELSE o1
           /\ f_pc' = IF listed THEN "lessons" ELSE "updates"
    /\ f_i' = 1
    /\ UNCHANGED <<f_course, f_w, pvars, gvars, mvars>>

\* One iteration of `for cls in classroom`.
FetchLesson ==
    /\ f_pc = "lessons" /\ f_i <= Len(Get(f_out, "classroom").l)
    /\ LET cls == Get(f_out, "classroom").l[f_i]
       IN  IF ~IsDict(cls) \/ ~Truthy(Get(cls, "id"))
           THEN UNCHANGED <<f_calls, f_out>>
           ELSE LET r == fetch(f_w.lesson, Get(cls, "id"))
                    asked == Append(f_calls, Call("lesson", Get(cls, "id")))
                IN  IF ~r.ok \/ ~IsDict(r.payload)
                    THEN f_calls' = asked /\ UNCHANGED f_out
                    ELSE /\ f_calls' = asked
                                \o item_calls(ensure_list(Get(r.payload, "videos")), 1)
                                \o item_calls(ensure_list(Get(r.payload, "notes")), 1)
                         /\ f_out' = Put(f_out, "lessons",
                                         List(Append(Get(f_out, "lessons").l,
                                                     lesson_record(cls, r.payload, f_w))))
    /\ f_i' = f_i + 1
    /\ UNCHANGED <<f_course, f_w, f_pc, pvars, gvars, mvars>>

\* A resolver that asks for the updates only when the classroom was listed.
FetchUpdatesAfterClassroomOnly ==
    /\ \/ f_pc = "updates"
       \/ f_pc = "lessons" /\ f_i > Len(Get(f_out, "classroom").l)
    /\ LET r == IF f_w.classroom.ok THEN f_w.updates ELSE Failed
           o1 == SetFlag(f_out, "updates", r.ok)
           o2 == IF r.ok THEN Put(o1, "announcements", List(ensure_list(r.payload))) ELSE o1
       IN  /\ f_calls' = IF f_w.classroom.ok
                         THEN Append(f_calls, Call("updates", Get(f_course, "id")))
                         ELSE f_calls
           /\ f_out' = Put(o2, "lesson_count", Num(sum_lesson_count(Get(o2, "lessons").l, 1)))
    /\ f_pc' = "done"
    /\ UNCHANGED <<f_course, f_w, f_i, pvars, gvars, mvars>>

\* updates_data, updates_ok = safe_get(.../updates/{cid}), after the loop
\* or after a classroom that was not listed; then lesson_count and return.
FetchUpdates ==
    /\ \/ f_pc = "updates"
       \/ f_pc = "lessons" /\ f_i > Len(Get(f_out, "classroom").l)
    /\ LET r == f_w.updates
           o1 == SetFlag(f_out, "updates", r.ok)
           o2 == IF r.ok THEN Put(o1, "announcements", List(ensure_list(r.payload))) ELSE o1
       IN  /\ f_calls' = Append(f_calls, Call("updates", Get(f_course, "id")))
           /\ f_out' = Put(o2, "lesson_count", Num(sum_lesson_count(Get(o2, "lessons").l, 1)))
    /\ f_pc' = "done"
    /\ UNCHANGED <<f_course, f_w, f_i, pvars, gvars, mvars>>

resolver ==
    \/ FetchClassroom
    \/ FetchLesson
    \/ FetchUpdates

InitFetch == FetchInit /\ PipeIdle /\ GetIdle /\ MergeIdle

SpecFetch == InitFetch /\ [][resolver]_vars

InitMerge == MergeInit /\ PipeIdle /\ GetIdle /\ FetchIdle

SpecMerge == InitMerge /\ [][MergeNext]_vars

InitGet == GetInit /\ PipeIdle /\ MergeIdle /\ FetchIdle

SpecGet == InitGet /\ [][safe_get]_vars

Init == PipeInit /\ GetIdle /\ MergeIdle /\ FetchIdle

Next == main

Spec == Init /\ [][Next]_vars

InitCrash == PipeInit /\ GetIdle /\ MergeIdle /\ FetchIdle

SpecCrash == InitCrash /\ [][main_or_crash]_vars

\* C10: safe_get ends for every attempt budget, after at most MAX_RETRIES
\* GETs, with a pair that is (payload, True) or (None, False); when every
\* attempt was transient it is (None, False) after exactly MAX_RETRIES GETs.
C10_SafeGetReturnsPair ==
    (g_pc = "returned") =>
        /\ Len(g_hist) <= g_max
        /\ g_ret.kind = "pair"
        /\ (g_ret.kind = "pair" => (g_ret.ok \/ g_ret.payload = None))
        /\ ((\A i \in 1..Len(g_hist) : g_hist[i] \in Transient) =>
               g_ret = Pair(None, FALSE) /\ Len(g_hist) = g_max)


(***************************************************************************)
(* Properties of the merge operators.                                      *)
(***************************************************************************)
BlankValues == {None, Txt(""), List(<<>>), Dict(EmptyD)}

\* existing still holds, at every nesting level, what it held non-blank.
RECURSIVE Preserved(_, _)
Preserved(e, o) ==
    IF IsDict(e)
    THEN /\ IsDict(o)
         /\ \A k \in DOMAIN e.d :
               e.d[k] \notin BlankValues => k \in DOMAIN o.d /\ Preserved(e.d[k], o.d[k])
    ELSE o = e

\* C2: after merge_dict_fill_only(existing, new) every field of the existing
\* record that held a non-blank value still holds exactly that value, at
\* every nesting level, whatever the type of the new value under its key.
C2_NonBlankNeverOverwritten ==
    (m_mode = "dict" /\ m_pc = "merged") => Preserved(m_existing, m_out)

\* C8: merging the new list a second time into the merged list returns the
\* first result again (same length, items, order and field values), and
\* merging a list into itself adds no entries.
C8_KeyedMergeIdempotent ==
    /\ (m_pc \in {"again_same", "again_equal"}) => m_out = m_first
    /\ (m_pc = "self") => Len(m_out.l) = Len(m_existing.l)

\* A second merge after a first merge that both filled an existing item and
\* appended new ones, and a self-merge of a list with two items of one key.
C8_Witness ==
    \/ /\ m_pc \in {"again_same", "again_equal"}
       /\ Len(m_existing.l) > 0
       /\ Len(m_first.l) > Len(m_existing.l)
       /\ \E i \in 1..Len(m_existing.l) : m_first.l[i] # m_existing.l[i]
       /\ m_newobj # m_new
    \/ /\ m_pc = "self"
       /\ Len(m_existing.l) = 2
       /\ m_out # m_existing

\* C9: after merge_scalar_fill_only(existing, k, n) the field k holds n if
\* what it held was blank (None, "", [], {} or absent) and n is not blank,
\* and holds what it held otherwise; no other field changes.
C9_FillOnlyScalar ==
    (m_mode = "scalar" /\ m_pc = "filled") =>
        /\ IF Get(m_existing, m_key) \in BlankValues /\ m_new \notin BlankValues
           THEN m_key \in DOMAIN m_out.d /\ m_out.d[m_key] = m_new
           ELSE /\ (m_key \in DOMAIN m_out.d) = (m_key \in DOMAIN m_existing.d)
                /\ Get(m_out, m_key) = Get(m_existing, m_key)
        /\ \A j \in (DOMAIN m_out.d \cup DOMAIN m_existing.d) \ {m_key} :
              /\ j \in DOMAIN m_out.d /\ j \in DOMAIN m_existing.d
              /\ m_out.d[j] = m_existing.d[j]

\* A blank field was filled while another field kept its value, and a
\* non-blank field refused a non-blank new value.
C9_Witness ==
    /\ m_mode = "scalar" /\ m_pc = "filled"
    /\ \/ /\ m_existing = Dict([a |-> Txt(""), b |-> Txt("b")])
          /\ m_key = "a" /\ m_new = Num(0) /\ m_out.d["a"] = Num(0)
       \/ /\ m_existing = Dict([a |-> Num(0), b |-> Txt("b")])
          /\ m_key = "a" /\ m_new = Txt("a") /\ m_out.d["a"] = Num(0)

(***************************************************************************)
(* Properties of the harvest runs.                                         *)
(***************************************************************************)
Field(x, k) == IF IsDict(x) /\ k \in DOMAIN x.d THEN x.d[k] ELSE None

ItemsOf(x, k) == IF IsList(Field(x, k)) THEN Field(x, k).l ELSE <<>>

\* Every item of old is in new at its position, under the same key.
KeptBy(old, new, key) ==
    /\ Len(old) <= Len(new)
    /\ \A i \in 1..Len(old) : Field(old[i], key) = Field(new[i], key)

KeptLesson(old, new) ==
    /\ KeptBy(ItemsOf(old, "videos"), ItemsOf(new, "videos"), "id")
    /\ KeptBy(ItemsOf(old, "notes"), ItemsOf(new, "notes"), "id")

KeptCourse(old, new) ==
    /\ KeptBy(ItemsOf(old, "lessons"), ItemsOf(new, "lessons"), "lesson_id")
    /\ \A i \in 1..Len(ItemsOf(old, "lessons")) :
          KeptLesson(ItemsOf(old, "lessons")[i], ItemsOf(new, "lessons")[i])
    /\ KeptBy(ItemsOf(old, "classroom"), ItemsOf(new, "classroom"), "id")
    /\ Len(ItemsOf(old, "announcements")) <= Len(ItemsOf(new, "announcements"))
    /\ \A i \in 1..Len(ItemsOf(old, "announcements")) :
          \A k \in DOMAIN ItemsOf(old, "announcements")[i].d :
             ItemsOf(old, "announcements")[i].d[k] \notin BlankValues =>
                Field(ItemsOf(new, "announcements")[i], k)
                    = ItemsOf(old, "announcements")[i].d[k]

KeptStore(old, new) ==
    /\ KeptBy(old, new, "course_id")
    /\ \A i \in 1..Len(old) : KeptCourse(old[i], new[i])

\* C1: nothing persisted is removed by a run: every entity record, and in
\* it every lesson, video, note, classroom entry and announcement that the
\* store file held when the run started is in the store, in memory and on
\* disk, at every later point of the run.
C1_NothingPersistedIsRemoved ==
    /\ KeptStore(file_at_start.data, master_file.data)
    /\ (pc \in {"fetching", "merging", "writing", "saving"} /\ filtered_courses # <<>>) =>
          KeptStore(file_at_start.data, master_json)

\* A run over a store holding lessons and announcements has merged a
\* snapshot that failed in both sections and carries empty lists.
C1_Witness ==
    /\ run > 1 /\ pc = "exit" /\ ~skip_push
    /\ Len(file_at_start.data) > 0
    /\ ItemsOf(file_at_start.data[1], "lessons") # <<>>
    /\ ItemsOf(file_at_start.data[1], "announcements") # <<>>
    /\ \E i \in 1..Len(results) :
          /\ Field(results[i], "course_id") = Field(file_at_start.data[1], "course_id")
          /\ Field(results[i], "_ok") = Dict([classroom |-> Bool(FALSE), updates |-> Bool(FALSE)])

MergedJustNow == pc = "merging" /\ last_upsert.kind = "merge"

SectionFailed(snapshot, section) == Field(Field(snapshot, "_ok"), section) = Bool(FALSE)

\* C3: a merge_course call with a snapshot whose classroom flag is false
\* leaves classroom, lessons (with every nested list and count) and the
\* entity's lesson_count of the existing record as they were.
C3_SectionGuard ==
    (MergedJustNow /\ SectionFailed(last_upsert.new, "classroom")) =>
        \A k \in {"classroom", "lessons", "lesson_count"} :
            /\ (k \in DOMAIN master_json[last_upsert.at].d) = (k \in DOMAIN last_upsert.before.d)
            /\ Field(master_json[last_upsert.at], k) = Field(last_upsert.before, k)

\* Such a merge into a record that holds lessons and classroom entries.
C3_Witness ==
    /\ MergedJustNow /\ SectionFailed(last_upsert.new, "classroom")
    /\ ItemsOf(last_upsert.before, "lessons") # <<>>
    /\ ItemsOf(last_upsert.before, "classroom") # <<>>
    /\ Field(last_upsert.before, "lesson_count") # Num(0)
    /\ master_json[last_upsert.at] # last_upsert.before

UpdatesOnlyRerun ==
    /\ MergedJustNow
    /\ last_upsert.at <= Len(file_at_start.data)
    /\ SectionFailed(last_upsert.new, "classroom")
    /\ Field(Field(last_upsert.new, "_ok"), "updates") = Bool(TRUE)

SameField(k) ==
    /\ (k \in DOMAIN master_json[last_upsert.at].d) = (k \in DOMAIN last_upsert.before.d)
    /\ Field(master_json[last_upsert.at], k) = Field(last_upsert.before, k)

FieldsOfMerge == DOMAIN master_json[last_upsert.at].d \cup DOMAIN last_upsert.before.d

\* C4 as stated: on a re-run whose snapshot has the classroom flag false
\* and the updates flag true, announcements is the only field of the
\* persisted record whose value may differ after the merge.
C4_OnlyAnnouncementsChange ==
    UpdatesOnlyRerun => \A k \in FieldsOfMerge \ {"announcements"} : SameField(k)

\* The fields fetch_course_details copies from the catalog entry.
CatalogFields == {"category_id", "start_at", "end_at", "image_large", "image_thumb"}

\* C4 as amended: on such a re-run lessons, classroom and every other field
\* keep their values, except announcements and the catalog fields
\* category_id, start_at, end_at, image_large, image_thumb, which the merge
\* may set from the snapshot.
C4_OnlyAnnouncementsAndCatalogFieldsChange ==
    UpdatesOnlyRerun =>
        \A k \in FieldsOfMerge \ ({"announcements"} \cup CatalogFields) : SameField(k)

\* Such a re-run over a record holding lessons, in which announcements
\* changed and the snapshot came from a later run at another rank.
C4_Witness ==
    /\ UpdatesOnlyRerun
    /\ ItemsOf(last_upsert.before, "lessons") # <<>>
    /\ ~SameField("announcements")
    /\ Field(last_upsert.new, "fetched_at") # Field(last_upsert.before, "fetched_at")
    /\ Field(last_upsert.new, "ranking") # Field(last_upsert.before, "ranking")

AllSectionsFailed(rs) ==
    \A i \in 1..Len(rs) : SectionFailed(rs[i], "classroom") /\ SectionFailed(rs[i], "updates")

OutageRun == filtered_courses # <<>> /\ pending = {} /\ AllSectionsFailed(results)

\* C5: in a run whose collected snapshots all have both flags false the
\* store file is not written (main never reaches the merge or the save, no
\* temporary file is written or renamed), the store file is what it was
\* when the run started, and the run ends with SKIP_PUSH written.
C5_OutageGating ==
    OutageRun =>
        /\ pc \in {"fetching", "exit"}
        /\ master_file = file_at_start
        /\ tmp_file = NoFile
        /\ (pc = "exit" => skip_push)

\* An outage run of two workers over a store that holds a record.
C5_Witness ==
    /\ OutageRun /\ pc = "exit" /\ Len(results) = 2
    /\ master_file.exists /\ Len(master_file.data) > 0

CanonicalIds(courses) == [i \in 1..Len(courses) |-> StrOf(Field(courses[i], "course_id"))]

OnePerId(courses) ==
    \A i, j \in 1..Len(courses) :
        CanonicalIds(courses)[i] = CanonicalIds(courses)[j] => i = j

\* C6: the collection, in memory and on disk, never holds two records with
\* the same canonical course_id.
C6_OneRecordPerCourseId ==
    OnePerId(master_json) /\ OnePerId(master_file.data) /\ OnePerId(tmp_file.data)

\* Two snapshots of one run, made from the ids 5 and "5", were both
\* upserted and the collection holds one record.
C6_Witness ==
    /\ pc = "merging" /\ idx = 3 /\ Len(master_json) = 1
    /\ Field(filtered_courses[1], "id") = Num(5)
    /\ Field(filtered_courses[2], "id") = Txt("5")
    /\ last_upsert.kind = "merge"

RECURSIVE SumOf(_, _)
SumOf(lessons, i) ==
    IF i > Len(lessons) THEN 0 ELSE Field(lessons[i], "lesson_count").n + SumOf(lessons, i + 1)

CountsRight(course) ==
    /\ \A i \in 1..Len(ItemsOf(course, "lessons")) :
          LET l == ItemsOf(course, "lessons")[i]
          IN  /\ Field(l, "video_count") = Num(Len(ItemsOf(l, "videos")))
              /\ Field(l, "note_count") = Num(Len(ItemsOf(l, "notes")))
              /\ Field(l, "lesson_count") = Num(Len(ItemsOf(l, "videos")) + Len(ItemsOf(l, "notes")))
    /\ Field(course, "lesson_count") = Num(SumOf(ItemsOf(course, "lessons"), 1))

\* C7: every lesson in the store has video_count and note_count equal to
\* the lengths of its lists and lesson_count equal to their sum, and every
\* entity's lesson_count is the sum over its lessons: after every upsert of
\* the merge loop, and in every file written.
C7_DerivedCounts ==
    /\ \A i \in 1..Len(master_json) : CountsRight(master_json[i])
    /\ \A i \in 1..Len(master_file.data) : CountsRight(master_file.data[i])

\* A merge with the classroom flag true that added a video to a lesson the
\* record already held.
C7_Witness ==
    /\ MergedJustNow
    /\ Field(Field(last_upsert.new, "_ok"), "classroom") = Bool(TRUE)
    /\ \E i \in 1..Len(ItemsOf(last_upsert.before, "lessons")) :
          Len(ItemsOf(ItemsOf(master_json[last_upsert.at], "lessons")[i], "videos"))
             > Len(ItemsOf(ItemsOf(last_upsert.before, "lessons")[i], "videos"))

(***************************************************************************)
(* Properties of safe_get beyond its return type.                         *)
(***************************************************************************)
\* C11: safe_get retries only after a transient outcome.  Every GET but the
\* last of a call got a 5xx status or a transport exception, and each of
\* those was followed by exactly one backoff sleep; a GET that got another
\* non-200 status or an unparsable 200 body is the last one and the call
\* returns (None, False); a GET that got a valid 200 is the last one and the
\* call returns (payload, True); a transient outcome ends the call only at
\* the last attempt, with (None, False) and without a sleep after it.
C11_RetryOnlyAfterTransient ==
    LET n == Len(g_hist)
    IN  /\ \A i \in 1..(n - 1) : g_hist[i] \in Transient
        /\ (g_pc = "loop") =>
              /\ \A i \in 1..n : g_hist[i] \in Transient
              /\ g_sleeps = n /\ g_attempt = n + 1
        /\ (g_max > 0) => g_sleeps < g_max
        /\ (g_pc = "returned" /\ n > 0) =>
              /\ g_sleeps = n - 1
              /\ (g_hist[n] \in {"status", "badbody"}) => g_ret = Pair(None, FALSE)
              /\ (g_hist[n] = "ok") =>
                    g_ret.kind = "pair" /\ g_ret.ok /\ g_ret.payload \in Payloads
              /\ (g_hist[n] \in Transient) => (n = g_max /\ g_ret = Pair(None, FALSE))

\* A call that slept after a 5xx and after an exception and ended at its
\* third GET on an unparsable body, with attempts to spare.
C11_Witness ==
    /\ g_pc = "returned" /\ g_max = 5
    /\ g_hist = <<"5xx", "exception", "badbody">>
    /\ g_sleeps = 2 /\ g_ret = Pair(None, FALSE)

(***************************************************************************)
(* Properties of the save.                                                 *)
(***************************************************************************)
\* The argument of the save_master_json call of this run.
NewContent == IF filtered_courses = <<>> THEN load_master_json(file_at_start) ELSE master_json

\* C12: the save is atomic.  The store file is never a partially written
\* one; while the temporary file is being written and until os.replace the
\* store file is what it was when the run started; the content goes whole
\* into the temporary file first; and wherever the process is killed during
\* a save the store file holds the complete previous content or the
\* complete new content.
C12_AtomicSave ==
    /\ master_file.whole
    /\ \/ master_file = file_at_start
       \/ pc \in {"exit", "crashed"} /\ master_file = File(NewContent)
    /\ (pc = "writing") => (tmp_file = Torn(NewContent) /\ master_file = file_at_start)
    /\ (pc = "saving") => (tmp_file = File(NewContent) /\ master_file = file_at_start)
    /\ (pc = "crashed") => master_file = file_at_start

\* The process was killed while it wrote new content for a store that
\* already held records: the temporary file is torn, the store file whole.
C12_Witness ==
    /\ pc = "crashed" /\ run > 1
    /\ tmp_file.exists /\ ~tmp_file.whole
    /\ master_file.exists /\ Len(master_file.data) > 0
    /\ tmp_file.data # master_file.data

HasFlags(x) == IsDict(x) /\ "_ok" \in DOMAIN x.d

\* C13: the success flags never reach the store: no record of the store
\* file or of the temporary file, on the merge-and-save path and on the
\* no-matches path, has the _ok field, and a merge_course call leaves the
\* existing record without _ok if it had none (and with its own if it had
\* one), whatever _ok the snapshot carries.
C13_FlagsNeverPersisted ==
    /\ \A i \in 1..Len(master_file.data) : ~HasFlags(master_file.data[i])
    /\ \A i \in 1..Len(tmp_file.data) : ~HasFlags(tmp_file.data[i])
    /\ MergedJustNow =>
          /\ HasFlags(master_json[last_upsert.at]) = HasFlags(last_upsert.before)
          /\ Field(master_json[last_upsert.at], "_ok") = Field(last_upsert.before, "_ok")

\* A later run merges a snapshot carrying true flags into a record loaded
\* from a store file that an earlier run wrote from flagged snapshots.
C13_Witness ==
    /\ run > 1 /\ Len(master_file.data) > 0
    /\ MergedJustNow
    /\ ~HasFlags(last_upsert.before)
    /\ Field(last_upsert.new, "_ok") = Dict([classroom |-> Bool(TRUE), updates |-> Bool(TRUE)])
    /\ last_upsert.at <= Len(master_file.data)

(***************************************************************************)
(* Properties of the outage signal.                                        *)
(***************************************************************************)
EveryFetchFailed == filtered_courses # <<>> /\ pending = {} /\ AllSectionsFailed(results)

\* C14 as stated: SKIP_PUSH is written in a run exactly when the catalog
\* fetch failed (ok is false) or every collected snapshot failed in both
\* sections; a run whose catalog was fetched, empty or not, and that is not
\* such an outage does not write it.
C14_SkipPushOnlyOnFailure ==
    (pc = "exit") => (skip_push <=> (~batches_got.ok \/ EveryFetchFailed))

\* C14 as amended: SKIP_PUSH is written, and only as the last act of a run,
\* exactly when the catalog call returned ok false, or returned a payload
\* with no entries (None, an empty list, a scalar), or every collected
\* snapshot failed in both sections; a run whose catalog has entries none
\* of which matches, or with a snapshot good in some section, never writes it.
C14_SkipPushOnFailedOrEmptyCatalog ==
    /\ skip_push => pc = "exit"
    /\ (pc = "exit") =>
          (skip_push <=> \/ ~batches_got.ok
                         \/ ensure_list(batches_got.payload) = <<>>
                         \/ EveryFetchFailed)

\* A run ended with SKIP_PUSH after the catalog was fetched and was empty.
C14_Witness ==
    /\ pc = "exit" /\ skip_push
    /\ batches_got = Resp(List(<<>>), TRUE)

(***************************************************************************)
(* Properties of a first harvest.                                          *)
(***************************************************************************)
\* The run started without records, matched one catalog entry with id "5",
\* and its worker got: classroom [c1]; lesson c1 = L1 with the video v1 and
\* no notes; video v1 with video_url "m3u://x".
FirstHarvest ==
    /\ file_at_start.data = <<>>
    /\ Len(filtered_courses) = 1 /\ Field(filtered_courses[1], "id") = Txt("5")
    /\ results = <<fetch_course_details(filtered_courses[1], 1, now(run), WorldFirst)>>

\* The run started without records and collected one snapshot with an id.
FirstSnapshot ==
    /\ file_at_start.data = <<>>
    /\ Len(results) = 1 /\ pending = {} /\ Truthy(Field(results[1], "course_id"))

\* C15: the first-harvest run persists exactly one record: course_id "5",
\* one lesson L1 with video_count 1, note_count 0, lesson_count 1 and one
\* video whose m3u is "m3u://x"; and in general the appended record is the
\* snapshot, and a run that collects a single snapshot over an empty store
\* persists that snapshot, lessons, items and counts as the resolver made
\* them, without the flags.
C15_FirstHarvest ==
    /\ (pc = "exit" /\ FirstHarvest) =>
          /\ ~skip_push
          /\ Len(master_file.data) = 1
          /\ Field(master_file.data[1], "course_id") = Txt("5")
          /\ Field(master_file.data[1], "lesson_count") = Num(1)
          /\ Len(ItemsOf(master_file.data[1], "lessons")) = 1
          /\ LET l == ItemsOf(master_file.data[1], "lessons")[1]
             IN  /\ Field(l, "lesson_id") = Txt("L1")
                 /\ Field(l, "video_count") = Num(1)
                 /\ Field(l, "note_count") = Num(0)
                 /\ Field(l, "lesson_count") = Num(1)
                 /\ ItemsOf(l, "notes") = <<>>
                 /\ Len(ItemsOf(l, "videos")) = 1
                 /\ Field(ItemsOf(l, "videos")[1], "id") = Txt("v1")
                 /\ Field(ItemsOf(l, "videos")[1], "m3u") = Txt("m3u://x")
    /\ (pc = "merging" /\ last_upsert.kind = "append") =>
          master_json[last_upsert.at] = last_upsert.new
    /\ (pc = "exit" /\ ~skip_push /\ FirstSnapshot) =>
          master_file.data = <<without_ok(results[1])>>

\* The first-harvest run has ended, as the first run of all.
C15_Witness ==
    /\ pc = "exit" /\ run = 1 /\ FirstHarvest /\ master_file.exists

(***************************************************************************)
(* Properties of record creation.                                          *)
(***************************************************************************)
\* C16: in a run that reaches the merge step, a snapshot whose classroom
\* and updates flags are both false does not add a record for an entity id
\* that the store does not hold yet.
C16_FailedSnapshotAddsNoRecord ==
    (pc = "merging" /\ last_upsert.kind = "append") =>
        ~(SectionFailed(last_upsert.new, "classroom") /\ SectionFailed(last_upsert.new, "updates"))

(***************************************************************************)
(* Properties of the resolver.                                             *)
(***************************************************************************)
Asked(kind) == Cardinality({i \in 1..Len(f_calls) : f_calls[i].kind = kind})

\* The classroom entries the classroom call delivered.
Entries ==
    IF f_w.classroom.ok /\ IsDict(f_w.classroom.payload)
    THEN ensure_list(Get(f_w.classroom.payload, "classroom")) ELSE <<>>

\* The entry has an id and its lesson call delivered a lesson detail.
GoodEntry(cls) ==
    /\ IsDict(cls) /\ Truthy(Get(cls, "id"))
    /\ fetch(f_w.lesson, Get(cls, "id")).ok
    /\ IsDict(fetch(f_w.lesson, Get(cls, "id")).payload)

RECURSIVE GoodEntries(_)
GoodEntries(i) ==
    IF i > Len(Entries) THEN <<>>
    ELSE (IF GoodEntry(Entries[i]) THEN <<Entries[i]>> ELSE <<>>) \o GoodEntries(i + 1)

RECURSIVE DictsOf(_, _)
DictsOf(xs, i) ==
    IF i > Len(xs) THEN <<>>
    ELSE (IF IsDict(xs[i]) THEN <<xs[i]>> ELSE <<>>) \o DictsOf(xs, i + 1)

\* The secondary lookup of a reference failed or was skipped for want of an id.
LookupMissed(ref) == ~Truthy(Get(ref, "id")) \/ ~fetch(f_w.video, Get(ref, "id")).ok

\* The lesson made from a good entry holds one item per video and per note
\* reference, blank in its URL fields where the lookup missed.
LessonComplete(cls, lesson) ==
    LET data == fetch(f_w.lesson, Get(cls, "id")).payload
        vrefs == DictsOf(ensure_list(Get(data, "videos")), 1)
        nrefs == DictsOf(ensure_list(Get(data, "notes")), 1)
    IN  /\ Len(ItemsOf(lesson, "videos")) = Len(vrefs)
        /\ Len(ItemsOf(lesson, "notes")) = Len(nrefs)
        /\ \A j \in 1..Len(vrefs) :
              LookupMissed(vrefs[j]) =>
                  /\ Field(ItemsOf(lesson, "videos")[j], "m3u") = Txt("")
                  /\ Field(ItemsOf(lesson, "videos")[j], "yt") = Txt("")
                  /\ Field(ItemsOf(lesson, "videos")[j], "video_pdfs") = None
        /\ \A j \in 1..Len(nrefs) :
              LookupMissed(nrefs[j]) =>
                  /\ Field(ItemsOf(lesson, "notes")[j], "resolved_url") = Txt("")
                  /\ Field(ItemsOf(lesson, "notes")[j], "yt") = Txt("")
                  /\ Field(ItemsOf(lesson, "notes")[j], "pdfs") = None

\* The call-by-call resolver returns what fetch_course_details computes.
ResolverAgrees ==
    (f_pc = "done") => f_out = fetch_course_details(f_course, 1, now(1), f_w)

\* C17: whatever each call of fetch_course_details gets, (i) the updates
\* URL is requested exactly once and _ok.updates is that call's ok; (ii)
\* _ok.classroom is the ok of the classroom call alone; (iii) every entry
\* whose lesson call delivered a lesson gives a lesson, with an item for
\* every video and note reference, blank in its URL fields where the item
\* lookup failed or was skipped; and the call always goes on to return a
\* snapshot.
C17_ResolverSectionsIndependent ==
    /\ (f_pc \in {"classroom", "lessons", "updates"}) =>
          (Asked("updates") = 0 /\ ENABLED resolver)
    /\ (f_pc = "done") =>
          /\ Asked("updates") = 1 /\ Asked("classroom") = 1
          /\ f_calls[Len(f_calls)] = Call("updates", Get(f_course, "id"))
          /\ Field(Field(f_out, "_ok"), "updates") = Bool(f_w.updates.ok)
          /\ Field(Field(f_out, "_ok"), "classroom") = Bool(f_w.classroom.ok)
          /\ Len(ItemsOf(f_out, "lessons")) = Len(GoodEntries(1))
          /\ \A k \in 1..Len(GoodEntries(1)) :
                LessonComplete(GoodEntries(1)[k], ItemsOf(f_out, "lessons")[k])
          /\ DOMAIN f_out.d = DOMAIN out_start(f_course, 1, now(1)).d

\* A call returned after the lesson of one entry failed, the lookup of a
\* video of the other failed and the updates call succeeded.
C17_Witness ==
    /\ f_pc = "done"
    /\ Len(Entries) = 4
    /\ f_w.lesson["2"] = Failed /\ f_w.video["v1"] = Failed
    /\ f_w.video["n1"].ok /\ f_w.updates.ok
    /\ Len(ItemsOf(f_out, "lessons")) = 1
    /\ Len(ItemsOf(ItemsOf(f_out, "lessons")[1], "videos")) = 2

(***************************************************************************)
(* Properties of the fingerprint merge.                                    *)
(***************************************************************************)
Fingerprints(l) == {fingerprint(l[i]) : i \in 1..Len(l)}

OnePerFingerprint(l) ==
    \A i, j \in 1..Len(l) : fingerprint(l[i]) = fingerprint(l[j]) => i = j

\* Every non-blank scalar field of the new item is non-blank in the item
\* of the merged list that has its fingerprint.
Absorbed(item, l) ==
    \E i \in 1..Len(l) :
        /\ fingerprint(l[i]) = fingerprint(item)
        /\ (IsDict(item) /\ IsDict(l[i])) =>
              \A k \in DOMAIN item.d :
                 (item.d[k].t \in {"str", "int", "bool"} /\ ~is_blank(item.d[k])) =>
                     ~is_blank(Get(l[i], k))

\* C18: for an existing list with one item per fingerprint and any new
\* list, merge_list_by_fingerprint returns a list with one item per
\* fingerprint in which each existing item is at its position with its
\* fingerprint, each new item is absorbed by the item of its fingerprint,
\* each fingerprint that was new is there once; and merging the same new
\* list again returns the same list.
C18_FingerprintMergeConverges ==
    /\ (m_pc = "fp_merged") =>
          /\ IsList(m_out)
          /\ OnePerFingerprint(m_out.l)
          /\ Len(m_out.l) >= Len(m_existing.l)
          /\ \A i \in 1..Len(m_existing.l) :
                fingerprint(m_out.l[i]) = fingerprint(m_existing.l[i])
          /\ \A i \in 1..Len(m_new.l) : Absorbed(m_new.l[i], m_out.l)
          /\ Len(m_out.l) = Cardinality(Fingerprints(m_existing.l) \cup Fingerprints(m_new.l))
    /\ (m_pc \in {"fp_again_same", "fp_again_equal"}) => m_out = m_first

(***************************************************************************)
(* Properties of the nested records.                                       *)
(***************************************************************************)
\* No two items of the list have the same id under key (items without one
\* aside).
OnePerKey(l, key) ==
    \A i, j \in 1..Len(l) :
        (Field(l[i], key) # None /\ Field(l[i], key) = Field(l[j], key)) => i = j

OneSubRecordPerId(course) ==
    /\ OnePerKey(ItemsOf(course, "lessons"), "lesson_id")
    /\ \A i \in 1..Len(ItemsOf(course, "lessons")) :
          /\ OnePerKey(ItemsOf(ItemsOf(course, "lessons")[i], "videos"), "id")
          /\ OnePerKey(ItemsOf(ItemsOf(course, "lessons")[i], "notes"), "id")

\* C19: every record of the store file has at most one lesson per
\* lesson_id, and every lesson in it at most one video and at most one note
\* per item id, also when the first snapshot of its entity held two lessons
\* or two items with the same id.
C19_OneSubRecordPerId ==
    \A i \in 1..Len(master_file.data) : OneSubRecordPerId(master_file.data[i])

(***************************************************************************)
(* Properties of the collection of the workers' results.                   *)
(***************************************************************************)
\* The snapshots in the order of submission (ranking 1, 2, ...).
RankOrder(rs) ==
    [i \in 1..Len(rs) |-> CHOOSE r \in {rs[j] : j \in 1..Len(rs)} : Field(r, "ranking") = Num(i)]

\* for r in rs: cid = r.get("course_id"); if cid: upsert_course(courses, cid, r)
RECURSIVE UpsertAll(_, _, _)
UpsertAll(courses, rs, i) ==
    IF i > Len(rs) THEN courses
    ELSE UpsertAll(IF Truthy(Get(rs[i], "course_id"))
                   THEN upsert_course(courses, Get(rs[i], "course_id"), rs[i])
                   ELSE courses,
                   rs, i + 1)

\* The store as a mapping from course_id to record.
AsMapping(courses) ==
    {<<Field(courses[i], "course_id"), courses[i]>> : i \in 1..Len(courses)}

\* Two workers that requested the same URLs (their catalog entries have
\* the same id as text) got the same responses.
FixedResponses ==
    \A i, j \in 1..Len(results) :
        Field(results[i], "course_id") = Field(results[j], "course_id") =>
            \A k \in {"classroom", "lessons", "announcements", "lesson_count", "_ok"} :
                Field(results[i], k) = Field(results[j], k)

\* C20: the outcome of a run does not depend on the order in which the
\* workers complete: main's collection is untouched while it collects, the
\* decision to skip is that of the snapshots in submission order, and with
\* fixed responses per URL the store file written maps every course_id to
\* the record that upserting the snapshots in submission order gives.
C20_OrderIndependent ==
    /\ (pc = "fetching") => master_json = load_master_json(file_at_start)
    /\ (pc = "exit" /\ filtered_courses # <<>>) =>
          skip_push = ~any_ok_anywhere(RankOrder(results))
    /\ (pc = "exit" /\ ~skip_push /\ filtered_courses # <<>> /\ FixedResponses) =>
          AsMapping(master_file.data)
             = AsMapping(strip_ok(UpsertAll(load_master_json(file_at_start),
                                            RankOrder(results), 1)))

====
